---- MODULE Spec2Model ----
(***************************************************************************)
(* The threaded SQLite connection pool of src/database.rs: the builder's   *)
(* open(), the worker threads (startup and serving loop), Database::call,  *)
(* the Drop of the Database handle, and Database::transaction (TxSpec).    *)
(*                                                                         *)
(* Library behaviour the code relies on:                                   *)
(*   - tokio mpsc::channel(n): bounded FIFO; recv() yields None once the   *)
(*     buffer is empty and every Sender is dropped; blocking_send fails    *)
(*     only when the Receiver is gone.                                     *)
(*   - crossbeam unbounded channel: FIFO, each message is taken by exactly *)
(*     one receiver; send fails when every Receiver is dropped; messages    *)
(*     still queued when the last Receiver goes are dropped.               *)
(*   - tokio oneshot: dropping the Sender without sending wakes the        *)
(*     Receiver with an error; sending to a dropped Receiver fails.        *)
(* The initializer and Connection::open are taken to return (Ok or Err);   *)
(* a Job's closure may return or panic.                                    *)
(***************************************************************************)
EXTENDS Integers, Sequences, FiniteSets, TLC

\* Number of connections the builder is configured with (connections(n)).
max_connections == 2
\* Number of call() invocations made on the handle over its life.
MaxCalls == 3

Workers == 1..max_connections
Jobs == 1..MaxCalls

\* What a Job's closure can return: the engine's Ok or Err, carried in R.
Outcomes == {"Ok", "Err"}

VARIABLES
    mpc,        \* position of the thread running open() / holding the handle
    idx,        \* loop index of open()'s spawn loop and of Drop's two loops
    openRet,    \* what open() returned: "pending", "Ok" or "Err"
    openErr,    \* the error open() returned
    nrecv,      \* startup results open() has taken from result_receiver
    hasInit,    \* whether with_init configured an initializer
    wpc,        \* position of each worker thread
    res,        \* each worker's startup result, once known
    initCount,  \* times the initializer ran on each worker
    result_q,   \* buffer of the startup-result channel
    queue,      \* the dispatch channel's buffer of Messages
    cur,        \* the Job each worker is executing (0: none)
    conn,       \* each connection: its state, the Jobs running on it, and
                \* the Job holding a transaction open on it (0: none)
    took,       \* Terminate messages each worker has consumed
    cpc,        \* position of each caller of call()
    slot,       \* each call's oneshot reply slot
    got,        \* the value each call returned
    ret,        \* the value each Job's closure returned
    execCount,  \* times each Job was dequeued and its closure invoked
    replies,    \* values sent into each call's reply slot
    db,         \* the rows committed to the database file
    txn,        \* the rusqlite::Transaction open on each connection
    txres,      \* what each Database::transaction Job did and returned
    input,      \* the arguments a function of the module is applied to
    output,     \* what the function returned
    path,       \* the path the builder was given: a file or ":memory:"
    store,      \* the content of each database the connections are open on
    hist,       \* what the helper Jobs run so far have written
    seen        \* what the last helper Job returned to its caller

mainVars == <<mpc, idx, openRet, openErr, nrecv, hasInit>>
workerVars == <<wpc, res, initCount, cur, conn, took>>
chanVars == <<result_q, queue>>
callVars == <<cpc, slot, got, ret, execCount, replies>>
txVars == <<db, txn, txres>>
fnVars == <<input, output>>
dataVars == <<path, store, hist, seen>>
poolVars == <<mainVars, workerVars, chanVars, callVars>>
nonPoolVars == <<txVars, fnVars, dataVars>>
nonTxVars == <<poolVars, fnVars, dataVars>>
nonFnVars == <<poolVars, txVars, dataVars>>
nonDataVars == <<poolVars, txVars, fnVars>>
vars == <<mainVars, workerVars, chanVars, callVars, txVars, fnVars, dataVars>>

\* A reply value R: the closure's outcome, tagged with the Job whose closure
\* produced it.
NoValue == [job |-> 0, val |-> "none"]
Value(c, v) == [job |-> c, val |-> v]

\* rusqlite::Result<()> as sent over the startup-result channel.
NoResult == [ok |-> FALSE, worker |-> 0, why |-> "pending"]
OkResult == [ok |-> TRUE, worker |-> 0, why |-> "none"]
ErrResult(w, why) == [ok |-> FALSE, worker |-> w, why |-> why]

\* enum Message { Call(SqliteCall), Terminate }
CallMsg(c) == [type |-> "Call", job |-> c]
TerminateMsg == [type |-> "Terminate", job |-> 0]

\* The oneshot reply slot of a call.
EmptySlot == [state |-> "empty", v |-> NoValue]
ClosedSlot == [state |-> "closed", v |-> NoValue]
FullSlot(v) == [state |-> "full", v |-> v]

\* No transaction on a connection; a transaction Job not yet run.
NoTx ==
    [job |-> 0, open |-> FALSE, writes |-> {}, drop_behavior |-> "Rollback",
     closed |-> FALSE]
NoTxRes == [ret |-> "none", wrote |-> {}, commit |-> FALSE]
TxIdle ==
    /\ db = {}
    /\ txn = [k \in Workers |-> NoTx]
    /\ txres = [c \in Jobs |-> NoTxRes]

\* No function applied yet.
NoError == [kind |-> "none", code |-> 0, extended_code |-> 0]
NoInput ==
    [fn |-> "none", columns |-> <<>>, stmt |-> "ok", rows |-> <<>>,
     e |-> NoError]
NoOutput == [tag |-> "none"]
FnIdle == input = NoInput /\ output = NoOutput

\* The databases a pool's connections can be open on: the file at the path
\* (0), or for the path ":memory:" the one each worker's Connection::open
\* created (the worker's number).
Dbs == 0..max_connections

\* The row a helper Job looks at, in one database: not there, or there with
\* a value.
Absent == [tag |-> "Absent"]
Present(v) == [tag |-> "Present", v |-> v]

\* No helper Job served yet: nothing written, nothing read.
NoWrite == [op |-> "none", v |-> 0, result |-> NoOutput]
NoHist == [base |-> Absent, last |-> NoWrite, incs |-> 0, writes |-> 0]
NoSeen ==
    [fn |-> "none", by |-> 0, stmt |-> "ok", decodes |-> TRUE, out |-> NoOutput]
DataIdle ==
    /\ path = "file"
    /\ store = [d \in Dbs |-> Absent]
    /\ hist = NoHist
    /\ seen = NoSeen

Init ==
    /\ FnIdle
    /\ DataIdle
    /\ TxIdle
    /\ mpc = "spawn"
    /\ idx = 0
    /\ openRet = "pending"
    /\ openErr = NoResult
    /\ nrecv = 0
    /\ hasInit \in BOOLEAN
    /\ wpc = [w \in Workers |-> "unspawned"]
    /\ res = [w \in Workers |-> NoResult]
    /\ initCount = [w \in Workers |-> 0]
    /\ result_q = <<>>
    /\ queue = <<>>
    /\ cur = [w \in Workers |-> 0]
    /\ conn = [k \in Workers |-> [state |-> "none", users |-> {}, tx |-> 0]]
    /\ took = [w \in Workers |-> 0]
    /\ cpc = [c \in Jobs |-> "idle"]
    /\ slot = [c \in Jobs |-> EmptySlot]
    /\ got = [c \in Jobs |-> NoValue]
    /\ ret = [c \in Jobs |-> NoValue]
    /\ execCount = [c \in Jobs |-> 0]
    /\ replies = [c \in Jobs |-> 0]

(***************************************************************************)
(* Channel endpoints, derived from where each thread is.                   *)
(***************************************************************************)

\* mpsc::channel(self.max_connections): the startup-result buffer's size.
CapacityShort == max_connections - 1
Capacity == max_connections

\* Worker::is_finished: the thread has ended (returned or unwound).
is_finishedAlways(w) == TRUE
is_finished(w) == wpc[w] \in {"done", "panicked"}

\* A spawned worker holds its result_sender clone until it returns during
\* startup or reaches drop(result_sender).
HoldsResultSender(w) == wpc[w] \in {"start", "init", "report", "sent"}

\* recv() on result_receiver yields None: open() dropped its own
\* result_sender and every worker dropped its clone.
AllSendersClosedEager == TRUE
AllSendersClosed ==
    /\ mpc # "spawn"
    /\ \A w \in Workers : ~HoldsResultSender(w)

\* result_receiver is a local of open(): dropped when open() returns.
ResultReceiverClosed == openRet # "pending"

\* A worker's clone of the dispatch Receiver lives as long as its thread.
HoldsReceiver(w) == wpc[w] \notin {"unspawned", "done", "panicked"}

\* Receivers of the dispatch channel left when worker w drops its own, open()
\* holding one until it returns.
ReceiversWithout(w) ==
    Cardinality({x \in Workers \ {w} : HoldsReceiver(x)})
        + (IF openRet = "pending" THEN 1 ELSE 0)

\* sender.send(msg) on the dispatch channel: the message goes to the back of
\* the buffer.
SendFront(q, m) == <<m>> \o q
Send(q, m) == Append(q, m)

\* The Call messages of a buffer.
RECURSIVE JobsIn(_)
JobsIn(q) ==
    IF q = <<>> THEN {}
    ELSE (IF Head(q).type = "Call" THEN {Head(q).job} ELSE {}) \cup JobsIn(Tail(q))

\* Dropping a queued Call drops its closure and the oneshot Sender in it.
CloseSlots(s, dropped) ==
    [c \in Jobs |-> IF c \in dropped /\ s[c].state = "empty" THEN ClosedSlot ELSE s[c]]

(***************************************************************************)
(* DatabaseBuilder::open                                                   *)
(***************************************************************************)

\* One iteration of the spawn loop: Worker::new(i, ...) starts thread i.
OpenSpawn ==
    /\ mpc = "spawn"
    /\ idx < max_connections
    /\ wpc' = [wpc EXCEPT ![idx + 1] = "start"]
    /\ idx' = idx + 1
    /\ UNCHANGED <<mpc, openRet, openErr, nrecv, hasInit>>
    /\ UNCHANGED <<res, initCount, cur, conn, took>>
    /\ UNCHANGED <<chanVars, callVars>>
    /\ UNCHANGED nonPoolVars

\* drop(result_sender); let db = Database { sender, workers };
OpenBuild ==
    /\ mpc = "spawn"
    /\ idx = max_connections
    /\ mpc' = "wait"
    /\ idx' = 0
    /\ UNCHANGED <<openRet, openErr, nrecv, hasInit>>
    /\ UNCHANGED <<workerVars, chanVars, callVars>>
    /\ UNCHANGED nonPoolVars

\* if let Err(e) = result
IsErrNever(r) == FALSE
IsErr(r) == ~r.ok

\* while let Some(result) = result_receiver.recv().await: one result taken.
\* On Err the function returns, which first drops db (Drop for Database).
OpenRecv ==
    /\ mpc = "wait"
    /\ result_q # <<>>
    /\ result_q' = Tail(result_q)
    /\ nrecv' = nrecv + 1
    /\ IF IsErr(Head(result_q))
       THEN /\ openErr' = Head(result_q)
            /\ mpc' = "terminate"
       ELSE UNCHANGED <<openErr, mpc>>
    /\ UNCHANGED <<idx, openRet, hasInit, queue>>
    /\ UNCHANGED <<workerVars, callVars>>
    /\ UNCHANGED nonPoolVars

\* recv() yields None: the loop ends and open() returns Ok(db).
OpenReturnOk ==
    /\ mpc = "wait"
    /\ result_q = <<>>
    /\ AllSendersClosed
    /\ mpc' = "open"
    /\ openRet' = "Ok"
    /\ UNCHANGED <<idx, openErr, nrecv, hasInit>>
    /\ UNCHANGED <<workerVars, chanVars, callVars>>
    /\ UNCHANGED nonPoolVars

(***************************************************************************)
(* Worker::new: the thread's startup                                       *)
(***************************************************************************)

\* let mut connection: the connection a worker's thread opens, initialises
\* and hands to func is a local of that thread, one per worker.
ConnOfShared(w) == 1
ConnOf(w) == w

\* if let Some(f) = init: where the thread goes once the connection is open.
AfterConnectSkipInit(configured) == "report"
AfterConnect(configured) == IF configured THEN "init" ELSE "report"

\* rusqlite::Connection::open(path)
WorkerConnect(w) ==
    /\ wpc[w] = "start"
    /\ \E ok \in BOOLEAN :
         IF ok
         THEN /\ wpc' = [wpc EXCEPT ![w] = AfterConnect(hasInit)]
              /\ res' = [res EXCEPT ![w] = OkResult]
              /\ conn' = [conn EXCEPT ![ConnOf(w)].state = "open"]
         ELSE /\ wpc' = [wpc EXCEPT ![w] = "report"]
              /\ res' = [res EXCEPT ![w] = ErrResult(w, "open")]
              /\ UNCHANGED conn
    /\ UNCHANGED <<initCount, cur, took>>
    /\ UNCHANGED <<mainVars, chanVars, callVars>>
    /\ UNCHANGED nonPoolVars

\* f(&mut connection)
WorkerInit(w) ==
    /\ wpc[w] = "init"
    /\ initCount' = [initCount EXCEPT ![w] = @ + 1]
    /\ \E ok \in BOOLEAN :
         IF ok
         THEN /\ res' = [res EXCEPT ![w] = OkResult]
              /\ conn' = [conn EXCEPT ![ConnOf(w)].state = "initialised"]
         ELSE /\ res' = [res EXCEPT ![w] = ErrResult(w, "init")]
              /\ UNCHANGED conn
    /\ wpc' = [wpc EXCEPT ![w] = "report"]
    /\ UNCHANGED <<cur, took>>
    /\ UNCHANGED <<mainVars, chanVars, callVars>>
    /\ UNCHANGED nonPoolVars

\* After blocking_send: return on the Err paths, go on to the loop on Ok.
AfterReportServe(ok) == "sent"
AfterReport(ok) == IF ok THEN "sent" ELSE "exit"

\* result_sender.blocking_send(..): waits for a free slot of the buffer; fails
\* when the receiver is gone. Err: the thread returns whatever the send did.
\* Ok: it returns only if the send failed.
WorkerReport(w) ==
    /\ wpc[w] = "report"
    /\ ResultReceiverClosed \/ Len(result_q) < Capacity
    /\ IF ResultReceiverClosed
       THEN /\ wpc' = [wpc EXCEPT ![w] = "exit"]
            /\ UNCHANGED result_q
       ELSE /\ result_q' = Append(result_q, res[w])
            /\ wpc' = [wpc EXCEPT ![w] = AfterReport(res[w].ok)]
    /\ UNCHANGED <<res, initCount, cur, conn, took, queue>>
    /\ UNCHANGED <<mainVars, callVars>>
    /\ UNCHANGED nonPoolVars

\* drop(result_sender); the thread enters its serving loop.
WorkerServe(w) ==
    /\ wpc[w] = "sent"
    /\ wpc' = [wpc EXCEPT ![w] = "recv"]
    /\ UNCHANGED <<res, initCount, cur, conn, took>>
    /\ UNCHANGED <<mainVars, chanVars, callVars>>
    /\ UNCHANGED nonPoolVars

\* Where a thread is once its closure has returned: ended for good. Threads
\* are spawned by open()'s loop only; the pool has no code that starts one in
\* place of a worker that ended.
ThreadEndRespawn == "start"
ThreadEnd == "done"

\* The thread's closure ends: its locals (the connection, its Receiver clone)
\* are dropped and the thread is finished.
WorkerExit(w) ==
    /\ wpc[w] = "exit"
    /\ wpc' = [wpc EXCEPT ![w] = ThreadEnd]
    /\ IF ReceiversWithout(w) = 0
       THEN /\ queue' = <<>>
            /\ slot' = CloseSlots(slot, JobsIn(queue))
       ELSE UNCHANGED <<queue, slot>>
    /\ conn' = [conn EXCEPT ![ConnOf(w)].state =
                   IF @ = "none" THEN "none" ELSE "closed"]
    /\ UNCHANGED <<res, initCount, cur, took, result_q>>
    /\ UNCHANGED <<cpc, got, ret, execCount, replies>>
    /\ UNCHANGED mainVars
    /\ UNCHANGED nonPoolVars

(***************************************************************************)
(* Worker::new: the serving loop                                           *)
(***************************************************************************)

\* receiver.recv() takes the message at the head of the buffer out of it.
DequeuePeek(q) == q
Dequeue(q) == Tail(q)

\* The oneshot Sender a Job's closure captured: that of its own call.
ReplySlotFirst(c) == 1
ReplySlot(c) == c

\* let _ = sender.send(..): the send fails, and is ignored, when the caller
\* dropped its future and with it the oneshot Receiver.
ReplyReceiverGoneAlways(c) == TRUE
ReplyReceiverGone(c) == cpc[c] = "abandoned"

\* let _ = sender.send(..): whether or not the reply could be delivered, the
\* closure returns and the loop goes on to its next recv().
AfterReplyUnwrap(gone) == IF gone THEN "exit" ELSE "recv"
AfterReply(gone) == "recv"

\* The Sender of the dispatch channel is a field of Database, dropped after
\* Drop::drop has run.
SenderDroppedAlways == TRUE
SenderDropped == mpc = "end"

\* The loop body calls func(&mut connection) on the worker's own thread, so
\* the thread is back at receiver.recv() only after func has returned.
ReadyToRecvBusy(w) == wpc[w] \in {"recv", "exec"}
ReadyToRecvAlone(w) == wpc[w] = "recv" /\ \A x \in Workers : wpc[x] # "exec"
ReadyToRecv(w) == wpc[w] = "recv"

\* while let Ok(msg) = receiver.recv(): Call(func) => func(&mut connection)
\* begins; Terminate => break; a disconnected, empty channel ends the loop.
\* The closure is opaque to the pool: whether it is one built by
\* Database::transaction, which opens a transaction on the connection first,
\* shows when it runs.
WorkerRecv(w) ==
    /\ ReadyToRecv(w)
    /\ queue # <<>> \/ SenderDropped
    /\ IF queue = <<>>
       THEN /\ wpc' = [wpc EXCEPT ![w] = "exit"]
            /\ UNCHANGED <<queue, cur, conn, took, execCount>>
       ELSE /\ queue' = Dequeue(queue)
            /\ IF Head(queue).type = "Call"
               THEN /\ wpc' = [wpc EXCEPT ![w] = "exec"]
                    /\ cur' = [cur EXCEPT ![w] = Head(queue).job]
                    /\ \E tx \in BOOLEAN :
                         conn' = [conn EXCEPT
                            ![ConnOf(w)].users = @ \cup {Head(queue).job},
                            ![ConnOf(w)].tx = IF tx THEN Head(queue).job ELSE @]
                    /\ execCount' = [execCount EXCEPT ![Head(queue).job] = @ + 1]
                    /\ UNCHANGED took
               ELSE /\ wpc' = [wpc EXCEPT ![w] = "exit"]
                    /\ took' = [took EXCEPT ![w] = @ + 1]
                    /\ UNCHANGED <<cur, conn, execCount>>
    /\ UNCHANGED <<res, initCount, result_q>>
    /\ UNCHANGED <<cpc, slot, got, ret, replies>>
    /\ UNCHANGED mainVars
    /\ UNCHANGED nonPoolVars

\* The closure built by call returns: let _ = sender.send(func(conn)). The
\* send fails, and the value is dropped, when the caller's Receiver is gone.
JobReturn(w) ==
    /\ wpc[w] = "exec"
    /\ \E v \in Outcomes :
         LET c == cur[w]
             val == Value(c, v)
             to == ReplySlot(c)
         IN  /\ ret' = [ret EXCEPT ![c] = val]
             /\ IF ReplyReceiverGone(to)
                THEN UNCHANGED <<slot, replies>>
                ELSE /\ slot' = [slot EXCEPT ![to] = FullSlot(val)]
                     /\ replies' = [replies EXCEPT ![to] = @ + 1]
    /\ wpc' = [wpc EXCEPT ![w] = AfterReply(ReplyReceiverGone(ReplySlot(cur[w])))]
    /\ cur' = [cur EXCEPT ![w] = 0]
    /\ conn' = [conn EXCEPT
           ![ConnOf(w)].users = @ \ {cur[w]},
           ![ConnOf(w)].tx = IF @ = cur[w] THEN 0 ELSE @]
    /\ UNCHANGED <<res, initCount, took>>
    /\ UNCHANGED <<cpc, got, execCount>>
    /\ UNCHANGED <<mainVars, chanVars>>
    /\ UNCHANGED nonPoolVars

\* func panics: the unwinding drops the closure and the oneshot Sender in it,
\* then the thread's locals; nothing in the loop catches it.
JobPanic(w) ==
    /\ wpc[w] = "exec"
    /\ wpc' = [wpc EXCEPT ![w] = "panicked"]
    /\ cur' = [cur EXCEPT ![w] = 0]
    /\ conn' = [conn EXCEPT
           ![ConnOf(w)].users = @ \ {cur[w]},
           ![ConnOf(w)].tx = IF @ = cur[w] THEN 0 ELSE @,
           ![ConnOf(w)].state = "closed"]
    /\ ret' = [ret EXCEPT ![cur[w]] = Value(cur[w], "Panic")]
    /\ IF ReceiversWithout(w) = 0
       THEN /\ queue' = <<>>
            /\ slot' = CloseSlots(slot, {cur[w]} \cup JobsIn(queue))
       ELSE /\ slot' = CloseSlots(slot, {cur[w]})
            /\ UNCHANGED queue
    /\ UNCHANGED <<res, initCount, took, result_q>>
    /\ UNCHANGED <<cpc, got, execCount, replies>>
    /\ UNCHANGED mainVars
    /\ UNCHANGED nonPoolVars

(***************************************************************************)
(* Database::call                                                          *)
(***************************************************************************)

\* self.sender.send(Message::Call(..)).expect(UNREACHABLE): the Job is
\* enqueued, or the send fails (no Receiver left) and call panics. Calls are
\* numbered in the order they are made.
Call(c) ==
    /\ mpc = "open"
    /\ cpc[c] = "idle"
    /\ \A d \in Jobs : d < c => cpc[d] # "idle"
    /\ IF \A w \in Workers : ~HoldsReceiver(w)
       THEN /\ cpc' = [cpc EXCEPT ![c] = "panicked"]
            /\ UNCHANGED queue
       ELSE /\ cpc' = [cpc EXCEPT ![c] = "await"]
            /\ queue' = Send(queue, CallMsg(c))
    /\ UNCHANGED <<slot, got, ret, execCount, replies, result_q>>
    /\ UNCHANGED <<mainVars, workerVars>>
    /\ UNCHANGED nonPoolVars

\* call returns the value the oneshot carried, the closure's own result.
ReceivedOk(v) == [v EXCEPT !.val = "Ok"]
Received(v) == v

\* receiver.await.expect(UNREACHABLE): resumes with the value sent, or panics
\* when the Sender was dropped without sending.
CallResume(c) ==
    /\ cpc[c] = "await"
    /\ slot[c].state # "empty"
    /\ IF slot[c].state = "full"
       THEN /\ cpc' = [cpc EXCEPT ![c] = "returned"]
            /\ got' = [got EXCEPT ![c] = Received(slot[c].v)]
       ELSE /\ cpc' = [cpc EXCEPT ![c] = "panicked"]
            /\ UNCHANGED got
    /\ UNCHANGED <<slot, ret, execCount, replies>>
    /\ UNCHANGED <<mainVars, workerVars, chanVars>>
    /\ UNCHANGED nonPoolVars

\* The caller's future is dropped while it awaits: the oneshot Receiver goes.
CallAbandon(c) ==
    /\ cpc[c] = "await"
    /\ cpc' = [cpc EXCEPT ![c] = "abandoned"]
    /\ UNCHANGED <<slot, got, ret, execCount, replies>>
    /\ UNCHANGED <<mainVars, workerVars, chanVars>>
    /\ UNCHANGED nonPoolVars

(***************************************************************************)
(* impl Drop for Database                                                  *)
(***************************************************************************)

\* The handle is dropped. call borrows the handle, so no call is awaiting.
DropDb ==
    /\ mpc = "open"
    /\ \A c \in Jobs : cpc[c] # "await"
    /\ mpc' = "terminate"
    /\ idx' = 0
    /\ UNCHANGED <<openRet, openErr, nrecv, hasInit>>
    /\ UNCHANGED <<workerVars, chanVars, callVars>>
    /\ UNCHANGED nonPoolVars

\* for worker in &self.workers: if !worker.is_finished() { let _ =
\* self.sender.send(Message::Terminate) }: one iteration. The send fails,
\* ignored, when no Receiver is left.
DropTerminate ==
    /\ mpc = "terminate"
    /\ LET w == idx + 1
       IN  IF ~is_finished(w) /\ ReceiversWithout(0) > 0
           THEN queue' = Send(queue, TerminateMsg)
           ELSE UNCHANGED queue
    /\ IF idx + 1 = max_connections
       THEN mpc' = "join" /\ idx' = 0
       ELSE mpc' = mpc /\ idx' = idx + 1
    /\ UNCHANGED <<openRet, openErr, nrecv, hasInit, result_q>>
    /\ UNCHANGED <<workerVars, callVars>>
    /\ UNCHANGED nonPoolVars

\* Worker::terminate: thread.join() returns once the thread has ended, with
\* Err (logged, ignored) if it panicked.
JoinReadyAlways(w) == TRUE
JoinReadyReturned(w) == wpc[w] = "done"
JoinReady(w) == is_finished(w)

\* for worker in &mut self.workers: worker.terminate(): one iteration. After
\* the last one the fields are dropped (the Sender; on open()'s error path
\* also open()'s locals) and, there, open() returns Err(e).
DropJoin ==
    /\ mpc = "join"
    /\ JoinReady(idx + 1)
    /\ IF idx + 1 = max_connections
       THEN /\ mpc' = "end"
            /\ idx' = 0
            /\ openRet' = IF openRet = "pending" THEN "Err" ELSE openRet
            /\ queue' = <<>>
            /\ slot' = CloseSlots(slot, JobsIn(queue))
       ELSE /\ idx' = idx + 1
            /\ UNCHANGED <<mpc, openRet, queue, slot>>
    /\ UNCHANGED <<openErr, nrecv, hasInit, result_q>>
    /\ UNCHANGED <<cpc, got, ret, execCount, replies>>
    /\ UNCHANGED workerVars
    /\ UNCHANGED nonPoolVars

Next ==
    \/ OpenSpawn
    \/ OpenBuild
    \/ OpenRecv
    \/ OpenReturnOk
    \/ \E w \in Workers : WorkerConnect(w)
    \/ \E w \in Workers : WorkerInit(w)
    \/ \E w \in Workers : WorkerReport(w)
    \/ \E w \in Workers : WorkerServe(w)
    \/ \E w \in Workers : WorkerExit(w)
    \/ \E w \in Workers : WorkerRecv(w)
    \/ \E w \in Workers : JobReturn(w)
    \/ \E w \in Workers : JobPanic(w)
    \/ \E c \in Jobs : Call(c)
    \/ \E c \in Jobs : CallResume(c)
    \/ \E c \in Jobs : CallAbandon(c)
    \/ DropDb
    \/ DropTerminate
    \/ DropJoin

Spec == Init /\ [][Next]_vars

\* The steps of a run in which every Job's closure returns and every caller
\* keeps awaiting its reply.
NextReturning ==
    \/ OpenSpawn
    \/ OpenBuild
    \/ OpenRecv
    \/ OpenReturnOk
    \/ \E w \in Workers : WorkerConnect(w)
    \/ \E w \in Workers : WorkerInit(w)
    \/ \E w \in Workers : WorkerReport(w)
    \/ \E w \in Workers : WorkerServe(w)
    \/ \E w \in Workers : WorkerExit(w)
    \/ \E w \in Workers : WorkerRecv(w)
    \/ \E w \in Workers : JobReturn(w)
    \/ \E c \in Jobs : Call(c)
    \/ \E c \in Jobs : CallResume(c)
    \/ DropDb
    \/ DropTerminate
    \/ DropJoin

\* The scheduling the liveness claims rest on: a worker blocked in recv() is
\* woken when a message is queued, a closure that is running comes back, and
\* the runtime polls a caller whose reply slot was written or closed.
FairSpec ==
    /\ Init /\ [][NextReturning]_vars
    /\ \A w \in Workers : WF_vars(WorkerRecv(w)) /\ WF_vars(JobReturn(w))
    /\ \A c \in Jobs : WF_vars(CallResume(c))

(***************************************************************************)
(* Database::transaction                                                   *)
(*                                                                         *)
(* The closure handed to call opens a rusqlite transaction on the worker's *)
(* connection, wraps it in Transaction { inner } and passes it, by value,  *)
(* to func. Library behaviour:                                             *)
(*   - rusqlite: commit() and rollback() take the Transaction by value; a  *)
(*     Transaction dropped while the connection is still inside it is      *)
(*     finished as its drop behaviour says, DropBehavior::Rollback unless  *)
(*     set_drop_behavior changed it; the drop runs on unwinding too.       *)
(*   - SQLite: writes of an open transaction are seen on its connection    *)
(*     only, until committed; one connection at a time may hold writes.    *)
(* Transaction's field is private and it implements Deref and DerefMut     *)
(* only, so func reaches the methods that borrow the rusqlite transaction  *)
(* (execute, execute_batch, set_drop_behavior), not commit().              *)
(* The pool is open and stays as open() returned it; each Job here is a    *)
(* Database::transaction Job whose closure inserts at most one row, named  *)
(* by the Job.                                                             *)
(***************************************************************************)

\* Rows the database file may hold before the first Job (from the
\* initializer or an earlier run of the program).
SeedRow == [job |-> 0]
Row(c) == [job |-> c]

\* conn.transaction(): the drop behaviour a new rusqlite::Transaction has.
drop_behaviorCommit == "Commit"
drop_behavior == "Rollback"

\* The pool variables right after open() has returned Ok(db), with or
\* without an initializer configured, no call made.
OpenedAfter(init) ==
    /\ mpc = "open"
    /\ idx = 0
    /\ openRet = "Ok"
    /\ openErr = NoResult
    /\ nrecv = max_connections
    /\ hasInit = init
    /\ wpc = [w \in Workers |-> "recv"]
    /\ res = [w \in Workers |-> OkResult]
    /\ initCount = [w \in Workers |-> IF init THEN 1 ELSE 0]
    /\ result_q = <<>>
    /\ queue = <<>>
    /\ cur = [w \in Workers |-> 0]
    /\ conn = [k \in Workers |->
                 [state |-> IF init THEN "initialised" ELSE "open",
                  users |-> {}, tx |-> 0]]
    /\ took = [w \in Workers |-> 0]
    /\ cpc = [c \in Jobs |-> "idle"]
    /\ slot = [c \in Jobs |-> EmptySlot]
    /\ got = [c \in Jobs |-> NoValue]
    /\ ret = [c \in Jobs |-> NoValue]
    /\ execCount = [c \in Jobs |-> 0]
    /\ replies = [c \in Jobs |-> 0]

\* No initializer configured.
Opened == OpenedAfter(FALSE)

TxInit ==
    /\ Opened
    /\ FnIdle
    /\ DataIdle
    /\ db \in SUBSET {SeedRow}
    /\ txn = [k \in Workers |-> NoTx]
    /\ txres = [c \in Jobs |-> NoTxRes]

\* Connection k's worker is running a transaction Job.
Busy(k) == txn[k].job # 0

\* The worker of connection k has unwound; its connection is closed.
Closed(k) == txn[k].closed

\* Another connection holds uncommitted writes, and with them the write lock.
WriteLocked(k) == \E j \in Workers \ {k} : txn[j].open /\ txn[j].writes # {}

\* What a query on connection k returns: the committed rows and the
\* uncommitted ones of its own transaction.
Visible(k) == db \cup txn[k].writes

\* Drop for rusqlite::Transaction: nothing if the connection has left the
\* transaction already; else commit or roll back as the drop behaviour says.
AfterDropCommit(t) == db \cup t.writes
AfterDrop(t) ==
    IF t.open /\ t.drop_behavior = "Commit" THEN db \cup t.writes ELSE db

\* let tx = Transaction { inner: conn.transaction()? }: a worker takes the
\* next transaction Job. If BEGIN fails, ? returns the Err and func is not
\* invoked.
TransactionBegin(k) ==
    /\ ~Busy(k) /\ ~Closed(k)
    /\ \E c \in Jobs :
         /\ txres[c].ret = "none"
         /\ \A j \in Workers : txn[j].job # c
         /\ \A d \in Jobs : d < c => txres[d].ret # "none" \/ \E j \in Workers : txn[j].job = d
         /\ \E ok \in BOOLEAN :
              IF ok
              THEN /\ txn' = [txn EXCEPT ![k] =
                          [job |-> c, open |-> TRUE, writes |-> {},
                           drop_behavior |-> drop_behavior, closed |-> FALSE]]
                   /\ UNCHANGED txres
              ELSE /\ txres' = [txres EXCEPT ![c].ret = "Err"]
                   /\ UNCHANGED txn
    /\ UNCHANGED db
    /\ UNCHANGED nonTxVars

\* func inserts its row through the handle (Deref to rusqlite::Transaction).
\* Inside the transaction the row is held back; after the closure has
\* committed the connection is in autocommit mode and the row goes straight
\* to the file.
TransactionWrite(k) ==
    /\ Busy(k)
    /\ ~WriteLocked(k)
    /\ Row(txn[k].job) \notin Visible(k)
    /\ IF txn[k].open
       THEN /\ txn' = [txn EXCEPT ![k].writes = @ \cup {Row(txn[k].job)}]
            /\ UNCHANGED db
       ELSE /\ db' = db \cup {Row(txn[k].job)}
            /\ UNCHANGED txn
    /\ txres' = [txres EXCEPT ![txn[k].job].wrote = @ \cup {Row(txn[k].job)}]
    /\ UNCHANGED nonTxVars

\* func calls tx.set_drop_behavior(DropBehavior::Commit) (DerefMut).
TransactionSetDropBehavior(k) ==
    /\ Busy(k)
    /\ txn[k].open
    /\ txn[k].drop_behavior = "Rollback"
    /\ txn' = [txn EXCEPT ![k].drop_behavior = "Commit"]
    /\ txres' = [txres EXCEPT ![txn[k].job].commit = TRUE]
    /\ UNCHANGED db
    /\ UNCHANGED nonTxVars

\* func runs the statement COMMIT through the handle: tx.execute_batch.
TransactionExecuteCommit(k) ==
    /\ Busy(k)
    /\ txn[k].open
    /\ db' = db \cup txn[k].writes
    /\ txn' = [txn EXCEPT ![k].open = FALSE, ![k].writes = {}]
    /\ txres' = [txres EXCEPT ![txn[k].job].commit = TRUE]
    /\ UNCHANGED nonTxVars

\* func(tx) returns Ok or Err, which is what the Job returns; tx, moved into
\* func, has been dropped by then. transaction itself does nothing more.
TransactionReturn(k) ==
    /\ Busy(k)
    /\ \E v \in Outcomes : txres' = [txres EXCEPT ![txn[k].job].ret = v]
    /\ db' = AfterDrop(txn[k])
    /\ txn' = [txn EXCEPT ![k] = NoTx]
    /\ UNCHANGED nonTxVars

\* func panics: the unwinding drops tx, then the thread's connection.
TransactionPanic(k) ==
    /\ Busy(k)
    /\ txres' = [txres EXCEPT ![txn[k].job].ret = "Panic"]
    /\ db' = AfterDrop(txn[k])
    /\ txn' = [txn EXCEPT ![k] = [NoTx EXCEPT !.closed = TRUE]]
    /\ UNCHANGED nonTxVars

TxNext ==
    \/ \E k \in Workers : TransactionBegin(k)
    \/ \E k \in Workers : TransactionWrite(k)
    \/ \E k \in Workers : TransactionSetDropBehavior(k)
    \/ \E k \in Workers : TransactionExecuteCommit(k)
    \/ \E k \in Workers : TransactionReturn(k)
    \/ \E k \in Workers : TransactionPanic(k)

TxSpec == TxInit /\ [][TxNext]_vars

(***************************************************************************)
(* The query helpers and Table::update_query, as functions of their        *)
(* arguments. A helper's closure is given the outcome of its statement on  *)
(* the connection: whether it prepares, whether its parameters bind, and   *)
(* the rows it yields, each of which the row function maps or fails to     *)
(* map. Library behaviour: query_row maps the first row and fails with     *)
(* QueryReturnedNoRows when there is none; query_map yields the rows       *)
(* mapped one by one; collect into a Result stops at the first Err.        *)
(***************************************************************************)

\* Longest result set and longest column list the functions are applied to.
MaxRows == 2
MaxColumns == 3

SeqsOver(S, n) == UNION {[1..m -> S] : m \in 0..n}

\* rusqlite::Result and Option values.
Ok(v) == [tag |-> "Ok", v |-> v]
Err(e) == [tag |-> "Err", e |-> e]
Some(v) == [tag |-> "Some", v |-> v]
None == [tag |-> "None"]

\* A row of a result set: the id it carries and whether its columns convert
\* to the types the row function asks for.
ResultRow == [id : 1..MaxRows, decodes : BOOLEAN]

\* impl Table for Foo (the test table): NAME and COLUMNS.
NAME == "foo"
COLUMNS == <<"id", "name", "age">>

Helpers == {"get", "get_by_id", "get_row", "all", "get_from_storage"}
QueryInputs ==
    [fn : Helpers, columns : {<<>>}, stmt : {"ok", "prepare", "bind"},
     rows : SeqsOver(ResultRow, MaxRows), e : {NoError}]
UpdateQueryInputs ==
    [fn : {"update_query"},
     columns : SeqsOver({COLUMNS[i] : i \in 1..Len(COLUMNS)} \cup {"email"}, MaxColumns),
     stmt : {"ok"}, rows : {<<>>}, e : {NoError}]

\* rusqlite::ffi::SQLITE_CONSTRAINT_UNIQUE
SQLITE_CONSTRAINT_UNIQUE == 2067

\* rusqlite::Error::SqliteFailure(ffi::Error { code, extended_code }, _): the
\* primary result code is the low byte of the extended one.
SqliteFailure(extended_code) ==
    [kind |-> "SqliteFailure", code |-> extended_code % 256,
     extended_code |-> extended_code]

\* The errors the predicate is applied to: engine failures with the extended
\* codes of UNIQUE, PRIMARY KEY (1555), NOT NULL (1299), a bare CONSTRAINT
\* (19) and BUSY (5), and errors of rusqlite that are no engine failure.
Errors ==
    {SqliteFailure(x) : x \in {SQLITE_CONSTRAINT_UNIQUE, 1555, 1299, 19, 5}}
    \cup {[kind |-> k, code |-> 0, extended_code |-> 0] :
             k \in {"QueryReturnedNoRows", "InvalidColumnType",
                    "InvalidParameterCount"}}
ErrorInputs ==
    [fn : {"is_unique_constraint_violation"}, columns : {<<>>}, stmt : {"ok"},
     rows : {<<>>}, e : Errors]

FnInit ==
    /\ Opened
    /\ TxIdle
    /\ DataIdle
    /\ input \in QueryInputs \cup UpdateQueryInputs \cup ErrorInputs
    /\ output = NoOutput

\* T::from_row: Foo { id: row.get("id")?, .. }
from_row(row) ==
    IF row.decodes THEN Ok([item |-> row.id]) ELSE Err("InvalidColumnType")

\* |row| row.get(0)
row_get(row) ==
    IF row.decodes THEN Ok(row.id) ELSE Err("InvalidColumnType")

\* conn.prepare_cached(query)?
prepare_cached(q) == IF q.stmt = "prepare" THEN Err("SqliteFailure") ELSE Ok(q)

\* stmt.query_row(params, f), mapped being f applied to each row in turn: the
\* first row mapped, or QueryReturnedNoRows.
query_row(q, mapped) ==
    IF q.stmt = "bind" THEN Err("InvalidParameterCount")
    ELSE IF Len(mapped) = 0 THEN Err("QueryReturnedNoRows")
    ELSE mapped[1]

\* match stmt.query_row(..) { Ok(value) => Ok(Some(value)),
\*     Err(QueryReturnedNoRows) => Ok(None), Err(e) => Err(e) }
NoRowsIsErr(r) ==
    IF r.tag = "Ok" THEN Ok(Some(r.v)) ELSE r
NoRowsIsNone(r) ==
    IF r.tag = "Ok" THEN Ok(Some(r.v))
    ELSE IF r = Err("QueryReturnedNoRows") THEN Ok(None)
    ELSE r

\* Database::get
get(q) ==
    IF prepare_cached(q).tag = "Err" THEN prepare_cached(q)
    ELSE NoRowsIsNone(query_row(q, [i \in 1..Len(q.rows) |-> from_row(q.rows[i])]))

\* Database::get_by_id
get_by_id(q) ==
    IF prepare_cached(q).tag = "Err" THEN prepare_cached(q)
    ELSE NoRowsIsNone(query_row(q, [i \in 1..Len(q.rows) |-> from_row(q.rows[i])]))

\* Database::get_row: the result of query_row is returned as it is.
get_row(q) ==
    IF prepare_cached(q).tag = "Err" THEN prepare_cached(q)
    ELSE query_row(q, [i \in 1..Len(q.rows) |-> from_row(q.rows[i])])

\* value.collect() into rusqlite::Result<Vec<T>>: the mapped rows in order, or
\* the first Err met and nothing else.
RECURSIVE collectPartial(_)
collectPartial(rows) ==
    IF rows = <<>> THEN Ok(<<>>)
    ELSE LET h == from_row(Head(rows))
         IN  IF h.tag = "Err" THEN Ok(<<>>)
             ELSE Ok(<<h.v>> \o collectPartial(Tail(rows)).v)
RECURSIVE collect(_)
collect(rows) ==
    IF rows = <<>> THEN Ok(<<>>)
    ELSE LET h == from_row(Head(rows))
         IN  IF h.tag = "Err" THEN h
             ELSE LET t == collect(Tail(rows))
                  IN  IF t.tag = "Err" THEN t ELSE Ok(<<h.v>> \o t.v)

\* stmt.query_map(params, T::from_row): the rows, mapped as they are read.
query_map(q) ==
    IF q.stmt = "bind" THEN Err("InvalidParameterCount") ELSE Ok(q.rows)

\* Database::all
all(q) ==
    IF prepare_cached(q).tag = "Err" THEN prepare_cached(q)
    ELSE LET value == query_map(q)
         IN  IF value.tag = "Ok" THEN collect(value.v)
             ELSE IF value = Err("QueryReturnedNoRows") THEN Ok(<<>>)
             ELSE value

\* .ok().flatten(): Err and Ok(None) both become None.
ok_flattenKeepErr(r) == IF r.tag = "Ok" THEN r.v ELSE r
ok_flatten(r) == IF r.tag = "Ok" THEN r.v ELSE None

\* Database::get_from_storage
get_from_storage(q) ==
    ok_flatten(IF prepare_cached(q).tag = "Err" THEN prepare_cached(q)
               ELSE NoRowsIsNone(query_row(q, [i \in 1..Len(q.rows) |-> row_get(q.rows[i])])))

\* Self::COLUMNS.contains(column)
InColumnsAny(column) == TRUE
InColumns(column) == \E i \in 1..Len(COLUMNS) : COLUMNS[i] = column

\* query.push_str(", ") ahead of every column but the first.
SeparatorAlways(first) == ", "
Separator(first) == IF first THEN "" ELSE ", "

\* What update_query does: return the String, or panic.
Returned(sql) == [tag |-> "Returned", sql |-> sql]
Panicked == [tag |-> "Panic"]

\* for column in columns.as_ref() { .. }; query.push_str(" WHERE id = ?")
RECURSIVE update_query_loop(_, _, _)
update_query_loop(query, first, columns) ==
    IF columns = <<>> THEN Returned(query \o " WHERE id = ?")
    ELSE IF InColumns(Head(columns))
         THEN update_query_loop(
                  query \o Separator(first) \o Head(columns) \o " = ?",
                  FALSE, Tail(columns))
         ELSE Panicked

\* Table::update_query
update_query(columns) ==
    update_query_loop("UPDATE " \o NAME \o " SET ", TRUE, columns)

\* A bool returned.
Bool(b) == [tag |-> "Bool", v |-> b]

\* is_unique_constraint_violation: SqliteFailure(error, _) =>
\* error.extended_code == SQLITE_CONSTRAINT_UNIQUE, _ => false
is_any_constraint_violation(e) ==
    IF e.kind = "SqliteFailure" THEN e.code = 19 ELSE FALSE
is_unique_constraint_violation(e) ==
    IF e.kind = "SqliteFailure"
    THEN e.extended_code = SQLITE_CONSTRAINT_UNIQUE
    ELSE FALSE

\* One application of each function to the arguments drawn.
Get ==
    /\ input.fn = "get"
    /\ output = NoOutput
    /\ output' = get(input)
    /\ UNCHANGED input
    /\ UNCHANGED nonFnVars

GetById ==
    /\ input.fn = "get_by_id"
    /\ output = NoOutput
    /\ output' = get_by_id(input)
    /\ UNCHANGED input
    /\ UNCHANGED nonFnVars

GetRow ==
    /\ input.fn = "get_row"
    /\ output = NoOutput
    /\ output' = get_row(input)
    /\ UNCHANGED input
    /\ UNCHANGED nonFnVars

All ==
    /\ input.fn = "all"
    /\ output = NoOutput
    /\ output' = all(input)
    /\ UNCHANGED input
    /\ UNCHANGED nonFnVars

GetFromStorage ==
    /\ input.fn = "get_from_storage"
    /\ output = NoOutput
    /\ output' = get_from_storage(input)
    /\ UNCHANGED input
    /\ UNCHANGED nonFnVars

UpdateQuery ==
    /\ input.fn = "update_query"
    /\ output = NoOutput
    /\ output' = update_query(input.columns)
    /\ UNCHANGED input
    /\ UNCHANGED nonFnVars

IsUniqueConstraintViolation ==
    /\ input.fn = "is_unique_constraint_violation"
    /\ output = NoOutput
    /\ output' = Bool(is_unique_constraint_violation(input.e))
    /\ UNCHANGED input
    /\ UNCHANGED nonFnVars

FnNext ==
    \/ Get
    \/ GetById
    \/ GetRow
    \/ All
    \/ GetFromStorage
    \/ UpdateQuery
    \/ IsUniqueConstraintViolation

FnSpec == FnInit /\ [][FnNext]_vars

(***************************************************************************)
(* The helper Jobs and the databases behind the pool. Every worker opens   *)
(* its own connection with rusqlite::Connection::open(path). For a file    *)
(* path the connections are on one database; SQLite's ":memory:" names a   *)
(* new private database per connection. A helper's closure is one          *)
(* statement, which SQLite runs atomically on the connection of the        *)
(* worker that took the Job; any worker at recv() may take it. The model   *)
(* follows one row (the inserted row, the counter row, the storage key).   *)
(***************************************************************************)

\* Largest value a Job writes, and the number of write Jobs served.
MaxValue == 2
MaxWrites == 2

\* Connection::open(path) in worker w: the database its connection is on.
DbOf(w) == IF path = ":memory:" THEN w ELSE 0

\* The result set of a SELECT of the row on worker w's connection.
RowsOf(w, decodes) ==
    IF store[DbOf(w)] = Absent THEN <<>>
    ELSE <<[id |-> store[DbOf(w)].v, decodes |-> decodes]>>

\* The pool is open on a file or on ":memory:". With an initializer, every
\* connection's database starts with the row the initializer seeds if it is
\* missing; without one the row is not there.
DataInit ==
    /\ FnIdle
    /\ TxIdle
    /\ path \in {"file", ":memory:"}
    /\ \E seeded \in BOOLEAN :
         /\ OpenedAfter(seeded)
         /\ store = [d \in Dbs |-> IF seeded THEN Present(0) ELSE Absent]
         /\ hist = [NoHist EXCEPT !.base = IF seeded THEN Present(0) ELSE Absent]
    /\ seen = NoSeen

\* What a write Job leaves in the history: the Job, and no read after it.
Wrote(op, v, result) ==
    /\ hist' = [hist EXCEPT
           !.last = [op |-> op, v |-> v, result |-> result],
           !.incs = IF op = "increment" /\ result = Ok(1) THEN @ + 1 ELSE @,
           !.writes = @ + 1]
    /\ seen' = NoSeen

\* execute("INSERT INTO foo(id, ..) VALUES (?, ..)"): a row of that id on the
\* connection's database is a UNIQUE constraint failure.
InsertJob(w) ==
    /\ ReadyToRecv(w)
    /\ hist.writes < MaxWrites
    /\ \E v \in 1..MaxValue :
         IF store[DbOf(w)] = Absent
         THEN /\ store' = [store EXCEPT ![DbOf(w)] = Present(v)]
              /\ Wrote("insert", v, Ok(1))
         ELSE /\ UNCHANGED store
              /\ Wrote("insert", v, Err("ConstraintViolation"))
    /\ UNCHANGED path
    /\ UNCHANGED nonDataVars

\* execute("UPDATE counter SET n = n + 1 WHERE id = ?"): returns the number
\* of rows changed.
IncrementJob(w) ==
    /\ ReadyToRecv(w)
    /\ hist.writes < MaxWrites
    /\ IF store[DbOf(w)] = Absent
       THEN /\ UNCHANGED store
            /\ Wrote("increment", 0, Ok(0))
       ELSE /\ store' = [store EXCEPT ![DbOf(w)] = Present(@.v + 1)]
            /\ Wrote("increment", 0, Ok(1))
    /\ UNCHANGED path
    /\ UNCHANGED nonDataVars

\* Database::update_storage: UPDATE storage SET value = ? WHERE name = ?,
\* then Ok(()) whatever the number of rows changed.
UpdateStorageJob(w) ==
    /\ ReadyToRecv(w)
    /\ hist.writes < MaxWrites
    /\ \E v \in 1..MaxValue :
         /\ store' = [store EXCEPT ![DbOf(w)] =
                         IF @ = Absent THEN Absent ELSE Present(v)]
         /\ Wrote("update_storage", v, Ok("unit"))
    /\ UNCHANGED path
    /\ UNCHANGED nonDataVars

\* What a read Job leaves: what it returned, and how its statement went.
Read(fn, w, stmt, decodes, out) ==
    /\ seen' = [fn |-> fn, by |-> w, stmt |-> stmt, decodes |-> decodes,
                out |-> out]
    /\ UNCHANGED <<path, store, hist>>

\* Database::get of the row.
GetJob(w) ==
    /\ ReadyToRecv(w)
    /\ \E stmt \in {"ok", "prepare", "bind"}, decodes \in BOOLEAN :
         Read("get", w, stmt, decodes,
              get([stmt |-> stmt, rows |-> RowsOf(w, decodes)]))
    /\ UNCHANGED nonDataVars

\* Database::get_by_id of the row.
GetByIdJob(w) ==
    /\ ReadyToRecv(w)
    /\ \E stmt \in {"ok", "prepare", "bind"}, decodes \in BOOLEAN :
         Read("get_by_id", w, stmt, decodes,
              get_by_id([stmt |-> stmt, rows |-> RowsOf(w, decodes)]))
    /\ UNCHANGED nonDataVars

\* Database::get_from_storage of the key.
GetFromStorageJob(w) ==
    /\ ReadyToRecv(w)
    /\ \E stmt \in {"ok", "prepare", "bind"}, decodes \in BOOLEAN :
         Read("get_from_storage", w, stmt, decodes,
              get_from_storage([stmt |-> stmt, rows |-> RowsOf(w, decodes)]))
    /\ UNCHANGED nonDataVars

DataNext ==
    \/ \E w \in Workers : InsertJob(w)
    \/ \E w \in Workers : IncrementJob(w)
    \/ \E w \in Workers : UpdateStorageJob(w)
    \/ \E w \in Workers : GetJob(w)
    \/ \E w \in Workers : GetByIdJob(w)
    \/ \E w \in Workers : GetFromStorageJob(w)

DataSpec == DataInit /\ [][DataNext]_vars

(***************************************************************************)
(* Properties                                                              *)
(***************************************************************************)

Queued(c) == c \in JobsIn(queue)
Running(c) == \E w \in Workers : cur[w] = c
Finished(c) == ret[c] # NoValue
SomePanic == \E w \in Workers : wpc[w] = "panicked"
Alive == {w \in Workers : wpc[w] \notin {"unspawned", "done", "panicked"}}
Terminates == {i \in 1..Len(queue) : queue[i].type = "Terminate"}

\* C1: a Job is dequeued at most once, so by at most one worker, and its
\* closure is invoked at most once; it is never run by two workers, and once
\* its closure has returned or panicked it is neither queued nor running
\* again, having been dequeued and invoked exactly once.
C1_JobConsumedOnce ==
    \A c \in Jobs :
        /\ execCount[c] <= 1
        /\ Cardinality({w \in Workers : cur[w] = c}) <= 1
        /\ cpc[c] = "idle" => execCount[c] = 0 /\ ~Queued(c)
        /\ Finished(c) =>
              /\ ~Queued(c) /\ ~Running(c)
              /\ execCount[c] = 1

\* One Job has completed and another is running on one worker while another
\* worker sits idle in recv().
C1_Witness ==
    \E c, d \in Jobs :
        /\ c # d
        /\ Finished(c) /\ execCount[c] = 1
        /\ Running(d) /\ execCount[d] = 1
        /\ \E w \in Workers : wpc[w] = "recv"

\* C2: at most one reply is ever put into a call's reply slot, and a call
\* that returned took exactly one; a call not yet made has none.
C2_AtMostOneReply ==
    \A c \in Jobs :
        /\ replies[c] <= 1
        /\ slot[c].state = "full" => replies[c] = 1
        /\ cpc[c] = "returned" => replies[c] = 1
        /\ cpc[c] = "idle" => replies[c] = 0

\* Two callers awaited at once and each got its one reply.
C2_Witness ==
    \E c, d \in Jobs :
        /\ c # d
        /\ cpc[c] = "returned" /\ cpc[d] = "returned"
        /\ replies[c] = 1 /\ replies[d] = 1

\* C3: call returns the value its own closure returned, never another
\* caller's, and call has no failure outcome of its own.
C3_CallReturnsOwnValueNeverFails ==
    \A c \in Jobs :
        /\ cpc[c] = "returned" =>
              got[c] = ret[c] /\ got[c].job = c /\ got[c].val \in Outcomes
        /\ cpc[c] # "panicked"

\* The part of C3 that holds: a call that returns, returns the value of its
\* own closure; a call fails only if a Job's closure panicked.
CallReturnsOwnValue ==
    \A c \in Jobs :
        /\ cpc[c] = "returned" =>
              got[c] = ret[c] /\ got[c].job = c /\ got[c].val \in Outcomes
        /\ cpc[c] = "panicked" => SomePanic

\* C4: in a fairly scheduled run in which every Job's closure returns, a
\* Job that is queued is eventually dequeued and its closure invoked, and the
\* caller awaiting it eventually resumes with its closure's result.
C4_JobEventuallyServed ==
    \A c \in Jobs :
        /\ Queued(c) ~> (~Queued(c) /\ execCount[c] = 1)
        /\ (cpc[c] = "await") ~> (cpc[c] = "returned" /\ got[c] = ret[c])

\* Every caller awaited a queued Job and has resumed with its result.
C4_Witness ==
    \A c \in Jobs : cpc[c] = "returned" /\ got[c] = ret[c] /\ execCount[c] = 1

\* C5: a Job running on a connection is run by the worker that opened it, no
\* two Jobs run on one connection, at most max_connections Jobs run at once,
\* and the Job holding a transaction open on a connection is the only one
\* running on it.
C5_ConnectionExclusive ==
    /\ \A k \in Workers :
          /\ Cardinality(conn[k].users) <= 1
          /\ conn[k].users # {} =>
                wpc[k] = "exec" /\ conn[k].users = {cur[k]}
          /\ conn[k].tx # 0 => conn[k].users = {conn[k].tx}
          /\ conn[k].state = "none" => conn[k].users = {}
    /\ \A w \in Workers : wpc[w] = "exec" => conn[w].users = {cur[w]}
    /\ Cardinality(UNION {conn[k].users : k \in Workers}) <= max_connections

\* Two workers run a Job each at the same time, one inside a transaction.
C5_Witness ==
    \E k, j \in Workers :
        /\ k # j
        /\ conn[k].tx # 0
        /\ conn[j].users # {} /\ conn[j].tx = 0

\* The handle has just been returned by open(): no call was made on it yet
\* and it was not dropped.
JustOpened == mpc = "open" /\ \A c \in Jobs : cpc[c] = "idle"

\* C6: when open() returns Ok, every one of the max_connections workers has
\* opened its connection and, where an initializer is configured, run it
\* with success; all of them are alive in their serving loop and no Job has
\* been executed.
C6_OkAfterAllStarted ==
    /\ openRet = "Ok" =>
          \A w \in Workers :
              res[w] = OkResult /\ initCount[w] = (IF hasInit THEN 1 ELSE 0)
    /\ JustOpened =>
          /\ \A w \in Workers :
                /\ wpc[w] = "recv"
                /\ conn[w].state = (IF hasInit THEN "initialised" ELSE "open")
          /\ Cardinality(Alive) = max_connections
          /\ \A c \in Jobs : execCount[c] = 0

\* open() has returned Ok with an initializer configured.
C6_Witness == JustOpened /\ openRet = "Ok" /\ hasInit

\* C7: open() returns Ok only if no worker failed, and returns Err only with
\* the error that a worker that failed (to open its connection or in its
\* initializer) reported.
C7_ErrIffWorkerFailed ==
    /\ openRet = "Ok" => \A w \in Workers : res[w].ok
    /\ openRet = "Err" =>
          /\ ~openErr.ok
          /\ openErr.worker \in Workers
          /\ res[openErr.worker] = openErr
          /\ openErr.why \in {"open", "init"}

\* open() has returned the error of a worker whose initializer failed, while
\* another worker had started with success.
C7_Witness ==
    /\ openRet = "Err"
    /\ openErr.why = "init"
    /\ \E w \in Workers : res[w].ok

C9_SurvivorsKeepServing ==
    openRet = "Err" =>
        \A w \in Workers :
            res[w].ok => wpc[w] \in {"recv", "exec"} /\ took[w] = 0

\* C9 amended: the Database built before the wait loop is dropped when open()
\* returns early with Err: its Drop has sent Terminate messages and joined
\* the workers, none being passed by the join loop before its thread has
\* ended, so when open() has returned Err no worker thread is alive and each
\* worker that succeeded at startup has consumed one Terminate.
C9_ErrPathShutsWorkersDown ==
    /\ mpc = "join" /\ openRet = "pending" => \A w \in 1..idx : wpc[w] = "done"
    /\ openRet = "Err" =>
          /\ \A w \in Workers : wpc[w] = "done" /\ took[w] = (IF res[w].ok THEN 1 ELSE 0)
          /\ Alive = {}

\* open() has returned Err and a worker that had succeeded at startup was
\* shut down with a Terminate.
C9_Witness ==
    /\ openRet = "Err"
    /\ \E w \in Workers : res[w].ok /\ took[w] = 1 /\ wpc[w] = "done"

\* C10: on every worker the initializer runs at most once, never before the
\* connection is open and only if one is configured; a worker that is about
\* to report success, has reported it or is serving has run it exactly once,
\* and every Job runs on an initialised connection.
C10_InitOnceBeforeServing ==
    \A w \in Workers :
        /\ initCount[w] <= (IF hasInit THEN 1 ELSE 0)
        /\ initCount[w] = 1 => conn[w].state # "none"
        /\ hasInit /\ res[w].ok /\ wpc[w] \in {"report", "sent", "recv", "exec"} =>
              initCount[w] = 1 /\ conn[w].state = "initialised"
        /\ hasInit /\ conn[w].users # {} => conn[w].state = "initialised"
        /\ hasInit /\ wpc[w] = "exec" => initCount[w] = 1

\* A worker runs a Job on the connection its initializer has run on once.
C10_Witness ==
    /\ hasInit
    /\ \E w \in Workers :
          wpc[w] = "exec" /\ initCount[w] = 1 /\ conn[w].state = "initialised"

\* C11: at most max_connections worker threads are alive at any moment; a
\* thread starts only in open()'s spawn loop, for a worker that has none yet;
\* a thread that has ended stays ended; and once open() has returned Ok the
\* set of alive workers never gains a member.
C11_PoolNeverGrows ==
    [][ /\ Cardinality(Alive') <= max_connections
        /\ \A w \in Workers :
              /\ wpc'[w] = "start" /\ wpc[w] # "start" =>
                    wpc[w] = "unspawned" /\ mpc = "spawn" /\ openRet = "pending"
              /\ is_finished(w) => wpc'[w] = wpc[w]
        /\ openRet = "Ok" => Alive' \subseteq Alive ]_vars

\* After open() returned Ok one worker has died of a panic and a later Job
\* runs on the one that is left.
C11_Witness ==
    /\ openRet = "Ok" /\ mpc = "open"
    /\ Cardinality(Alive) = max_connections - 1
    /\ \E w \in Workers : wpc[w] = "panicked"
    /\ \E w \in Workers : wpc[w] = "exec"

\* C12: while a worker runs a Job, every Job submitted before it has either
\* completed or is running on another worker: of two Jobs run by one worker
\* the earlier submitted has completed before the later starts.
C12_PerWorkerOrder ==
    \A w \in Workers :
        cur[w] # 0 =>
            \A a \in Jobs :
                a < cur[w] => Finished(a) \/ (\E v \in Workers \ {w} : cur[v] = a)

\* A worker runs the third Job submitted, having run an earlier one to
\* completion, while the other worker still runs an earlier one.
C12_Witness ==
    \E w, v \in Workers :
        /\ w # v
        /\ cur[w] = 3
        /\ cur[v] \in {1, 2}
        /\ \E a \in {1, 2} : Finished(a) /\ a # cur[v]

\* The Job of call c was put on the dispatch channel: its caller awaited it,
\* or panicked because the reply slot was closed under it. (A call that
\* panicked in send never had its Job enqueued and its slot is untouched.)
Enqueued(c) ==
    \/ cpc[c] \in {"await", "returned", "abandoned"}
    \/ cpc[c] = "panicked" /\ slot[c].state = "closed"

\* Every worker thread has died from a panicking closure.
AllPanicked == \A w \in Workers : wpc[w] = "panicked"

C14_DropNeverStuck ==
    ~ /\ mpc = "join"
      /\ wpc[idx + 1] = "recv"
      /\ queue = <<>>
      /\ ~SomePanic
      /\ \A w \in Workers : wpc[w] \in {"recv", "done"}

\* C15: a worker consumes at most one Terminate, and once Drop has sent its
\* Terminate messages there is one in the channel for every worker that is
\* in, or about to enter, recv().
C15_TerminateForEachBlockedWorker ==
    /\ \A w \in Workers : took[w] <= 1
    /\ mpc = "join" =>
          Cardinality(Terminates) >=
              Cardinality({w \in Workers : wpc[w] \in {"sent", "recv", "exec"}})

\* C16: the caller of a Job whose closure panicked gets no reply and never
\* comes out of its await (unless it gives the await up itself).
C16_PanicLeavesCallerBlocked ==
    \A c \in Jobs :
        ret[c].val = "Panic" =>
            replies[c] = 0 /\ cpc[c] \in {"await", "abandoned"}

\* C17: a call made when no worker thread is alive goes into its await and
\* stays there: it neither returns nor fails.
C17_CallHangsWithoutWorkers ==
    [][ \A c \in Jobs :
          (\A w \in Workers : ~HoldsReceiver(w)) =>
              /\ cpc[c] = "idle" /\ cpc'[c] # "idle" => cpc'[c] = "await"
              /\ cpc[c] = "await" => cpc'[c] \in {"await", "abandoned"} ]_vars

\* C18: once a caller has abandoned its await, its Job stays in the channel
\* until a worker takes it (or the last worker dies), is invoked at most
\* once, and leaves its worker only with the closure ended; when the closure
\* returns nothing is put into the reply slot and the worker is back at
\* recv().
C18_AbandonedJobStillRuns ==
    [][ \A c \in Jobs :
          cpc[c] = "abandoned" =>
              /\ execCount'[c] <= 1
              /\ slot'[c].state = "full" => slot[c].state = "full"
              /\ replies'[c] = replies[c]
              /\ Queued(c) \/ Running(c) \/ Finished(c)
                    \/ \A w \in Workers : ~HoldsReceiver(w)
              /\ Queued(c) =>
                    \/ Queued(c)' \/ Running(c)'
                    \/ \A w \in Workers : ~HoldsReceiver(w)'
              /\ \A w \in Workers :
                    cur[w] = c /\ cur'[w] # c =>
                        /\ Finished(c)'
                        /\ ret'[c].val \in Outcomes => wpc'[w] = "recv" ]_vars

\* A Job whose caller gave up has run to its end with its reply discarded,
\* and the worker that is left runs a Job submitted later.
C18_Witness ==
    \E c, d \in Jobs :
        /\ c < d
        /\ cpc[c] = "abandoned"
        /\ ret[c].val \in Outcomes /\ execCount[c] = 1
        /\ slot[c].state = "empty" /\ replies[c] = 0
        /\ Cardinality(Alive) = 1
        /\ Running(d)

\* C19: when the closure of a transaction Job has returned Ok, the rows it
\* wrote are committed: a query on any connection returns them.
C19_OkCommits ==
    \A c \in Jobs :
        txres[c].ret = "Ok" =>
            /\ txres[c].wrote \subseteq db
            /\ \A k \in Workers : txres[c].wrote \subseteq Visible(k)

\* C20: a transaction Job whose closure has not itself committed keeps its
\* writes out of the committed rows while it runs; the step in which its
\* closure returns Err leaves the committed rows as they are and the rows it
\* wrote are returned by no query on any connection, then or later.
C20_ErrRollsBack ==
    [][ /\ \A k \in Workers :
              Busy(k) /\ ~txres[txn[k].job].commit =>
                  /\ txres[txn[k].job].wrote \cap db = {}
                  /\ txres'[txn[k].job].ret = "Err" =>
                        /\ db' = db
                        /\ \A j \in Workers :
                              txres[txn[k].job].wrote \cap Visible(j)' = {}
        /\ \A c \in Jobs :
              txres[c].ret = "Err" /\ ~txres[c].commit =>
                  \A j \in Workers : txres[c].wrote \cap Visible(j) = {} ]_vars

\* A closure wrote its row and returned Err, and the row is gone, while the
\* row another Job's closure committed and the seed row are still there.
C20_Witness ==
    \E c, d \in Jobs :
        /\ c # d
        /\ txres[c].ret = "Err" /\ txres[c].wrote = {Row(c)} /\ ~txres[c].commit
        /\ Row(c) \notin db
        /\ txres[d].commit /\ Row(d) \in db
        /\ SeedRow \in db

\* C21: unless its closure has itself committed, a transaction Job never
\* changes the committed rows: not while it runs, and not in the step in
\* which its closure returns (Ok or Err) or panics, after which no query on
\* any connection returns a row it wrote; and a connection whose worker is
\* not running a Job has no transaction open and holds no uncommitted write.
C21_RollbackUnlessCommitted ==
    [][ /\ \A k \in Workers :
              Busy(k) /\ ~txres[txn[k].job].commit =>
                  /\ txres[txn[k].job].wrote \cap db = {}
                  /\ ~Busy(k)' =>
                        /\ txres'[txn[k].job].ret \in {"Ok", "Err", "Panic"}
                        /\ db' = db
                        /\ \A j \in Workers :
                              txres[txn[k].job].wrote \cap Visible(j)' = {}
        /\ \A k \in Workers :
              ~Busy(k) => ~txn[k].open /\ txn[k].writes = {}
        /\ \A c \in Jobs :
              txres[c].ret # "none" /\ ~txres[c].commit =>
                  \A j \in Workers : txres[c].wrote \cap Visible(j) = {} ]_vars

\* Three closures wrote a row each without committing and ended in the three
\* ways, by Ok, by Err and by a panic: none of the rows is in the file.
C21_Witness ==
    /\ \A c \in Jobs : txres[c].wrote = {Row(c)} /\ ~txres[c].commit
    /\ {txres[c].ret : c \in Jobs} = {"Ok", "Err", "Panic"}
    /\ db \cap {Row(c) : c \in Jobs} = {}
    /\ \A k \in Workers : ~Busy(k) /\ ~txn[k].open

\* C22: when the statement runs and yields no row, get and get_by_id return
\* Ok(None) and all returns Ok of the empty list; none of them returns Err.
C22_EmptyResultIsOk ==
    input.stmt = "ok" /\ input.rows = <<>> /\ output # NoOutput =>
        /\ input.fn \in {"get", "get_by_id"} => output = Ok(None)
        /\ input.fn = "all" => output = Ok(<<>>)
        /\ input.fn \in {"get", "get_by_id", "all"} => output.tag # "Err"

\* get_by_id has run on a query that matched no row and returned Ok(None).
C22_Witness ==
    /\ input.fn = "get_by_id"
    /\ input.stmt = "ok"
    /\ input.rows = <<>>
    /\ output = Ok(None)

\* C23: get_row on a query matching no row does not return Err.
C23_GetRowAbsenceIsNotErr ==
    /\ input.fn = "get_row"
    /\ input.stmt = "ok"
    /\ input.rows = <<>>
    /\ output # NoOutput
    => output.tag # "Err"

\* The list of columns c1 = ?, ..., ck = ? of a non-empty list, written out
\* from its first column on.
RECURSIVE Assignments(_)
Assignments(columns) ==
    IF Len(columns) = 1 THEN columns[1] \o " = ?"
    ELSE columns[1] \o " = ?, " \o Assignments(Tail(columns))

\* C26: update_query panics whenever some element of the column list, at
\* any position, is not in COLUMNS; it then returns no String.
C26_UnknownColumnPanics ==
    /\ input.fn = "update_query"
    /\ output # NoOutput
    /\ \E i \in 1..Len(input.columns) :
          input.columns[i] \notin {"id", "name", "age"}
    => output = Panicked

\* The unknown column is the last of three and update_query has panicked.
C26_Witness ==
    /\ input.fn = "update_query"
    /\ input.columns = <<"name", "age", "email">>
    /\ output = Panicked

\* C27: for a non-empty list of columns that are all in COLUMNS,
\* update_query returns "UPDATE {NAME} SET c1 = ?, ..., ck = ? WHERE id = ?",
\* the columns in the given order and separated by ", ".
C27_UpdateQueryText ==
    /\ input.fn = "update_query"
    /\ output # NoOutput
    /\ input.columns # <<>>
    /\ \A i \in 1..Len(input.columns) :
          input.columns[i] \in {"id", "name", "age"}
    => output = Returned("UPDATE foo SET " \o Assignments(input.columns)
                         \o " WHERE id = ?")

\* test_update_query_creation: Foo::update_query(["name", "age"]).
C27_Witness ==
    /\ input.fn = "update_query"
    /\ input.columns = <<"name", "age">>
    /\ output = Returned("UPDATE foo SET name = ?, age = ? WHERE id = ?")

\* C29: a Job whose closure returned Err was run exactly once; its caller,
\* once call has returned, holds that same Err of that same Job; and the Err
\* ended no thread: while the handle is open and no closure has panicked,
\* every worker is still in its loop, at recv() or running a Job.
C29_ErrJobRunOnceWorkerLives ==
    \A c \in Jobs :
        ret[c] = Value(c, "Err") =>
            /\ execCount[c] = 1
            /\ cpc[c] = "returned" => got[c] = Value(c, "Err")
            /\ mpc = "open" /\ ~SomePanic =>
                  \A w \in Workers : wpc[w] \in {"recv", "exec"}

\* Job 1 is still running on one worker; Job 2 failed and its caller has the
\* Err; Job 3, taken after it by the worker that ran Job 2, returned Ok.
C29_Witness ==
    /\ \E w \in Workers : wpc[w] = "exec" /\ cur[w] = 1
    /\ ret[2] = Value(2, "Err")
    /\ cpc[2] = "returned"
    /\ got[2] = Value(2, "Err")
    /\ execCount[2] = 1
    /\ ret[3] = Value(3, "Ok")
    /\ got[3] = Value(3, "Ok")

\* C30: a worker whose connection failed to open or whose initializer
\* failed is never in the serving loop: it has taken no Terminate and runs
\* no Job, its one blocking_send is never kept waiting, and once past it
\* exactly one Err of this worker has been handed to open().
C30_FailedWorkerOnlyReports ==
    \A w \in Workers :
        res[w] # NoResult /\ ~res[w].ok =>
            /\ wpc[w] \in {"report", "exit", "done"}
            /\ took[w] = 0
            /\ cur[w] = 0
            /\ wpc[w] = "report" =>
                  Len(result_q) < Capacity \/ ResultReceiverClosed
            /\ Cardinality({i \in 1..Len(result_q) : result_q[i] = res[w]})
                  + (IF openErr = res[w] THEN 1 ELSE 0)
               = (IF wpc[w] = "report" THEN 0 ELSE 1)

\* Worker 1's initializer failed: its thread has ended without taking a
\* message, open() holds its Err, and the other worker took the Terminate.
C30_Witness ==
    /\ res[1] = ErrResult(1, "init")
    /\ wpc[1] = "done"
    /\ took[1] = 0
    /\ openErr = res[1]
    /\ initCount[1] = 1
    /\ \E w \in Workers \ {1} : took[w] = 1 /\ wpc[w] = "done"

\* C24: when the last write through the handle was an execute that inserted
\* the row, a get or get_by_id of the row whose statement runs and whose
\* columns convert returns Some of the inserted value, whichever worker
\* serves it.
C24_InsertThenGet ==
    /\ hist.last.op = "insert"
    /\ hist.last.result = Ok(1)
    /\ seen.fn \in {"get", "get_by_id"}
    /\ seen.stmt = "ok"
    /\ seen.decodes
    => seen.out = Ok(Some([item |-> hist.last.v]))

\* C25: when the counter row was there from the start and the only writes
\* through the handle were k increments that each changed it, the counter
\* read on any worker's connection is its first value plus k.
C25_NoLostIncrement ==
    /\ hist.base # Absent
    /\ hist.incs > 0
    /\ hist.incs = hist.writes
    => \A w \in Workers : store[DbOf(w)] = Present(hist.base.v + hist.incs)

\* C28: a get_from_storage Job changes no database; what it returns is Some
\* or None, never an error; it is Some(v) exactly when its statement ran,
\* the key's row is in the database of the worker that served it, holding v,
\* and v converts to T; it is None when the key is missing, when the value
\* does not convert, and when the statement failed.
C28_GetFromStorageBestEffort ==
    [][ seen' # seen /\ seen'.fn = "get_from_storage" =>
            /\ store' = store
            /\ hist' = hist
            /\ path' = path
            /\ IF /\ seen'.stmt = "ok"
                  /\ seen'.decodes
                  /\ store[DbOf(seen'.by)] # Absent
               THEN seen'.out = Some(store[DbOf(seen'.by)].v)
               ELSE seen'.out = None ]_vars

\* get_from_storage has returned Some of the value an update_storage wrote,
\* and the database still holds that value.
C28_Witness ==
    /\ seen.fn = "get_from_storage"
    /\ hist.last.op = "update_storage"
    /\ seen.out = Some(hist.last.v)
    /\ store[DbOf(seen.by)] = Present(hist.last.v)

\* C31: a worker blocked in recv() takes the message at the head of the
\* buffer whatever the other workers are doing: a Job still running on one
\* worker keeps no idle worker from dequeuing the Jobs submitted after it.
C31_IdleWorkerNotStalled ==
    \A w \in Workers :
        wpc[w] = "recv" /\ queue # <<>> => ENABLED WorkerRecv(w)

\* Job 1 is still running on one worker; Job 2, submitted after it, was run
\* by another worker and its caller already has the result.
C31_Witness ==
    /\ \E w \in Workers : wpc[w] = "exec" /\ cur[w] = 1
    /\ ret[1] = NoValue
    /\ cpc[1] = "await"
    /\ execCount[2] = 1
    /\ cpc[2] = "returned"
    /\ got[2] = Value(2, "Ok")

\* C32: until Drop runs, and as long as no closure has panicked, the buffer
\* holds no Terminate, no worker has taken one, and the only threads that
\* have left or ended are those whose startup failed; once open() has
\* returned Ok every worker is at recv() or running a Job.
C32_NoShutdownBeforeDrop ==
    mpc \in {"spawn", "wait", "open"} /\ ~SomePanic =>
        /\ Terminates = {}
        /\ \A w \in Workers :
              /\ took[w] = 0
              /\ wpc[w] \in {"exit", "done"} => res[w] # NoResult /\ ~res[w].ok
              /\ mpc = "open" => wpc[w] \in {"recv", "exec"}

\* The handle is open, all three Jobs have been served, one returned Err
\* and one had its caller give up, and both workers are back at recv() on an
\* empty buffer.
C32_Witness ==
    /\ mpc = "open"
    /\ \A c \in Jobs : execCount[c] = 1 /\ ret[c] # NoValue
    /\ \E c \in Jobs : ret[c] = Value(c, "Err")
    /\ \E c \in Jobs : cpc[c] = "abandoned"
    /\ queue = <<>>
    /\ \A w \in Workers : wpc[w] = "recv" /\ took[w] = 0

\* C33: a closure's panic ends the thread of the worker that ran it and no
\* other: while the handle is open every other worker is in its loop (or has
\* itself run a panicking closure) and still takes the next message when it
\* is at recv(); and when Drop comes to join the panicked worker, the join
\* returns at once, with an Err that terminate only logs.
C33_PanicStopsOnlyItsWorker ==
    \A w \in Workers :
        wpc[w] = "panicked" =>
            /\ mpc = "open" =>
                  \A x \in Workers \ {w} :
                      /\ wpc[x] \in {"recv", "exec", "panicked"}
                      /\ wpc[x] = "recv" /\ queue # <<>> => ENABLED WorkerRecv(x)
            /\ mpc = "join" /\ idx + 1 = w => ENABLED DropJoin

\* Job 1 panicked on worker 2; the other worker then served Jobs 2 and 3 to
\* their callers; the handle was dropped and Drop has joined both threads.
C33_Witness ==
    /\ wpc[2] = "panicked"
    /\ ret[1] = Value(1, "Panic")
    /\ cpc[1] = "panicked"
    /\ got[2] = Value(2, "Ok")
    /\ got[3] = Value(3, "Ok")
    /\ wpc[1] = "done"
    /\ mpc = "end"

\* C34: on a pool over a file, when the last write through the handle was an
\* update_storage that returned Ok, a get_from_storage of the key whose
\* statement runs and whose value converts returns Some of the value
\* written, whether or not the key had a row before.
C34_UpdateStorageThenGet ==
    /\ path = "file"
    /\ hist.last.op = "update_storage"
    /\ hist.last.result = Ok("unit")
    /\ seen.fn = "get_from_storage"
    /\ seen.stmt = "ok"
    /\ seen.decodes
    => seen.out = Some(hist.last.v)

\* C35: on a pool opened on ":memory:" all workers' connections are on one
\* database: after any Jobs have written, the row reads the same on every
\* worker's connection.
C35_MemoryPoolSharesOneDatabase ==
    path = ":memory:" =>
        \A w, x \in Workers : store[DbOf(w)] = store[DbOf(x)]

C37_UniqueViolationOnly ==
    input.fn = "is_unique_constraint_violation" /\ output # NoOutput =>
        /\ output.tag = "Bool"
        /\ output.v <=> (input.e.kind = "SqliteFailure" /\ input.e.extended_code = 2067)

\* The predicate answered false for a PRIMARY KEY constraint failure.
C37_Witness ==
    /\ input.fn = "is_unique_constraint_violation"
    /\ input.e.kind = "SqliteFailure"
    /\ input.e.code = 19
    /\ input.e.extended_code = 1555
    /\ output = Bool(FALSE)

\* The workers whose thread is past its blocking_send.
Reported == {w \in Workers : wpc[w] \notin {"unspawned", "start", "init", "report"}}

\* C38: a worker at its blocking_send is never kept waiting, whether open()
\* is still reading results or has stopped on its failure path; and the
\* results sent, those open() took and those still in the buffer, are one
\* for each worker past its send, never more than the buffer's n slots.
C38_OneResultNeverBlocked ==
    /\ \A w \in Workers : wpc[w] = "report" => ENABLED WorkerReport(w)
    /\ Len(result_q) + nrecv = Cardinality(Reported)
    /\ Len(result_q) <= Capacity

\* Worker 1's connection failed to open and open() returned with that Err,
\* the first result it read, after Drop; the Ok of every other worker was
\* never read and is still in the buffer, and those workers went on to
\* their loop and were shut down.
C38_Witness ==
    /\ openErr = ErrResult(1, "open")
    /\ openRet = "Err"
    /\ nrecv = 1
    /\ result_q = [i \in 1..(max_connections - 1) |-> OkResult]
    /\ \A w \in Workers \ {1} : took[w] = 1 /\ wpc[w] = "done"

====
